---- MODULE Spec2Model ----
(***************************************************************************)
(* Model of examples/plot_simulation.py: the comparison plot of the three  *)
(* head-position trajectories (lines 88-115).                              *)
(*                                                                         *)
(* Numbers.  A position value v of the model stands for the real number    *)
(* v * 1e-3 (so the stored 1e-3 m is v = 1 and the plotted 1.0 mm is       *)
(* v = 1000); the script's "1000 * data" is the integer product 1000 * v.  *)
(* A timestamp k stands for k * 0.25 s.                                    *)
(*                                                                         *)
(* matplotlib.  Two calls of the script behave differently across          *)
(* matplotlib releases, so the release is part of the state (mpl):         *)
(*   "legacy" (<= 1.4): Artist.set_axes(axes) exists and only stores its   *)
(*      argument; legend(x) with one positional argument takes x as the    *)
(*      list of LABELS for the axes' existing lines, and a label that is   *)
(*      a Line2D is rendered through str(), "Line2D(<label>)".             *)
(*   "modern": ax.set_axes raises (ValueError from 1.5, AttributeError     *)
(*      once the method was removed).                                      *)
(***************************************************************************)
EXTENDS Integers, Sequences, FiniteSets, TLC

VARIABLES mpl, t_stat, t_orig, t_move, trans_stat, trans_orig, trans_move,
          pc, ai, ci, fig, lines, err, runs, prevFig, prevErr

vars == <<mpl, t_stat, t_orig, t_move, trans_stat, trans_orig, trans_move,
          pc, ai, ci, fig, lines, err, runs, prevFig, prevErr>>

inputs == <<mpl, t_stat, t_orig, t_move, trans_stat, trans_orig, trans_move>>

\* ---------------------------------------------------------------- bounds
MaxLen == 2
MaxRuns == 2

\* ------------------------------------------------------ script constants
axes == <<"X", "Y", "Z">>
labels == <<"stationary", "original", "simulated">>
sizes == <<5, 10, 5>>
colors == <<"y", "k", "r">>
GridRows == 3
GridCols == 1
ScaleFactor == 1000
\* the default of ax.step, used when where= is left out
StepWhere_Pre == "pre"
StepWhere == "post"
XLabel == "Time (sec)"

\* the list built in the order of the loads (orig, move, stat) instead
ts_LoadOrder == <<t_orig, t_move, t_stat>>
ts == <<t_stat, t_orig, t_move>>
transs == <<trans_stat, trans_orig, trans_move>>

\* ------------------------------------------------------------- helpers
Min(S) == CHOOSE m \in S : \A n \in S : m <= n

\* zip(...) stops at the shortest of its arguments
ZipLen == Min({Len(ts), Len(transs), Len(sizes), Len(colors), Len(labels)})

\* data.shape[1] of a matrix kept as a sequence of rows
NCols(data) == Len(data[1])

\* data[:, col] (col is 0-based, as in the script)
Column(data, col) == [k \in 1..Len(data) |-> data[k][col + 1]]

\* the column plotted in metres, the factor forgotten
Scale_NoFactor(col) == col

\* 1000 * column
Scale(col) == [k \in 1..Len(col) |-> ScaleFactor * col[k]]

\* data[:, col] raises IndexError when the matrix has no such column
HasColumn(data, col) == col < NCols(data)

\* a plot call that accepts any pair of lengths
SameFirstDim_Any(x, y) == TRUE

\* plot/step raise ValueError unless x and y have the same first dimension
SameFirstDim(x, y) == Len(x) = Len(y)

\* str(line) of a labelled Line2D
LineStr(line) == "Line2D(" \o line.label \o ")"

\* What a step line displays at time tau (x[1] <= tau):
\*   'post': the value of the latest sample at or before tau;
\*   'pre' : the value of the earliest sample at or after tau.
StepValue(line, tau) ==
    IF line.where = "post"
    THEN LET k == CHOOSE k \in 1..Len(line.x) :
                     /\ line.x[k] <= tau
                     /\ \A j \in 1..Len(line.x) : line.x[j] <= tau => j <= k
         IN line.y[k]
    ELSE LET k == CHOOSE k \in 1..Len(line.x) :
                     /\ line.x[k] >= tau
                     /\ \A j \in 1..Len(line.x) : line.x[j] >= tau => j >= k
         IN line.y[k]

NoErr == [call |-> "none", exc |-> "none", ai |-> -1, ci |-> -1]

\* ------------------------------------------------------------- inputs
Conds == 1..3
Shapes == {"ok", "rows", "cols", "wide"}
Patterns == {"ramp", "alt"}

\* timestamps of condition c: strictly increasing, a stride of its own
Timestamps(c, n) == [k \in 1..n |-> (k - 1) * c]

Entry(pat, c, k, i) ==
    IF pat = "ramp" THEN 9 * (c - 1) + 3 * (k - 1) + i
    ELSE IF i = 1 /\ k % 2 = 0 THEN c ELSE 0

Matrix(pat, c, n, shape) ==
    LET rows == IF shape = "rows" THEN n + 1 ELSE n
        cols == CASE shape = "cols" -> 2
                  [] shape = "wide" -> 4
                  [] OTHER -> 3
    IN [k \in 1..rows |-> [i \in 1..cols |-> Entry(pat, c, k, i)]]

\* the concrete scenario of the specification (times in quarter seconds)
ScenT_stat == <<0, 4, 8>>
ScenT_orig == <<0, 2, 4, 6, 8>>
ScenT_move == <<0, 4, 8>>
ScenTrans_stat == <<<<0, 0, 0>>, <<0, 0, 0>>, <<0, 0, 0>>>>
ScenTrans_orig == <<<<0, 0, 0>>, <<1, 0, 0>>, <<0, 0, 0>>, <<1, 0, 0>>, <<0, 0, 0>>>>
ScenTrans_move == <<<<0, 0, 0>>, <<2, 0, 0>>, <<2, 0, 0>>>>

IsScenario ==
    /\ t_stat = ScenT_stat /\ t_orig = ScenT_orig /\ t_move = ScenT_move
    /\ trans_stat = ScenTrans_stat
    /\ trans_orig = ScenTrans_orig
    /\ trans_move = ScenTrans_move

WellFormedPair(t, data) == Len(t) = Len(data) /\ NCols(data) >= 3
WellFormed == \A c \in Conds : WellFormedPair(ts[c], transs[c])

\* ---------------------------------------------------------------- Init
\* get_chpi_positions loaded the three position logs; nothing is drawn yet.
InitLoaded ==
    \E pat \in Patterns, len \in [Conds -> 1..MaxLen], shape \in [Conds -> Shapes] :
        /\ t_stat = Timestamps(1, len[1])
        /\ t_orig = Timestamps(2, len[2])
        /\ t_move = Timestamps(3, len[3])
        /\ trans_stat = Matrix(pat, 1, len[1], shape[1])
        /\ trans_orig = Matrix(pat, 2, len[2], shape[2])
        /\ trans_move = Matrix(pat, 3, len[3], shape[3])

InitScenario == IsScenario

Init ==
    /\ mpl \in {"legacy", "modern"}
    /\ (InitLoaded \/ InitScenario)
    /\ pc = "start"
    /\ ai = 0
    /\ ci = 1
    /\ fig = <<>>
    /\ lines = <<>>
    /\ err = NoErr
    /\ runs = 1
    /\ prevFig = <<>>
    /\ prevErr = NoErr

\* ------------------------------------------------------------- actions
NewAxes(index) ==
    [nrows |-> GridRows, ncols |-> GridCols, index |-> index,
     lines |-> <<>>, ylabel |-> "", xlabel |-> "", legend |-> <<>>,
     hasLegend |-> FALSE]

Raise(call, exc) ==
    /\ err' = [call |-> call, exc |-> exc, ai |-> ai, ci |-> ci]
    /\ pc' = "failed"

\* plt.figure() left out: a second run draws onto the figure already there
Figure_Reuse ==
    /\ pc = "start"
    /\ fig' = prevFig
    /\ ai' = 0
    /\ pc' = "subplot"
    /\ UNCHANGED <<inputs, ci, lines, err, runs, prevFig, prevErr>>

\* plt.figure() and the lists built before the loop
Figure ==
    /\ pc = "start"
    /\ fig' = <<>>
    /\ ai' = 0
    /\ pc' = "subplot"
    /\ UNCHANGED <<inputs, ci, lines, err, runs, prevFig, prevErr>>

\* ax = plt.subplot(3, 1, ai + 1); lines = []
Subplot ==
    /\ pc = "subplot"
    /\ ai < Len(axes)
    /\ fig' = Append(fig, NewAxes(ai + 1))
    /\ lines' = <<>>
    /\ ci' = 1
    /\ pc' = IF ZipLen >= 1 THEN "step" ELSE "ylabel"
    /\ UNCHANGED <<inputs, ai, err, runs, prevFig, prevErr>>

\* one iteration of the zip loop:
\* lines.append(ax.step(t, 1000 * data[:, ai], ..., where='post', label=label)[0])
Step ==
    /\ pc = "step"
    /\ ci <= ZipLen
    /\ LET t == ts[ci]
           data == transs[ci]
           cur == Len(fig)
       IN IF ~HasColumn(data, ai)
          THEN /\ Raise("step", "IndexError")
               /\ UNCHANGED <<fig, lines, ci>>
          ELSE LET y == Scale(Column(data, ai))
                   line == [x |-> t, y |-> y, color |-> colors[ci],
                            marker |-> "o", markersize |-> sizes[ci],
                            where |-> StepWhere, label |-> labels[ci]]
               IN IF ~SameFirstDim(t, y)
                  THEN /\ Raise("step", "ValueError")
                       /\ UNCHANGED <<fig, lines, ci>>
                  ELSE /\ fig' = [fig EXCEPT ![cur].lines = Append(@, line)]
                       /\ lines' = Append(lines, line)
                       /\ ci' = ci + 1
                       /\ pc' = IF ci < ZipLen THEN "step" ELSE "ylabel"
                       /\ err' = err
    /\ UNCHANGED <<inputs, ai, runs, prevFig, prevErr>>

\* ax.set_ylabel(axes): the whole string instead of the loop variable
SetYLabel_Whole ==
    /\ pc = "ylabel"
    /\ fig' = [fig EXCEPT ![Len(fig)].ylabel = "XYZ"]
    /\ pc' = "legend"
    /\ UNCHANGED <<inputs, ai, ci, lines, err, runs, prevFig, prevErr>>

\* ax.set_ylabel(axis)
SetYLabel ==
    /\ pc = "ylabel"
    /\ fig' = [fig EXCEPT ![Len(fig)].ylabel = axes[ai + 1]]
    /\ pc' = "legend"
    /\ UNCHANGED <<inputs, ai, ci, lines, err, runs, prevFig, prevErr>>

\* if ai == 1: plt.legend(lines)
\* One positional argument is the list of labels; the handles are the
\* current axes' own lines, as many as there are labels.
IfLegend ==
    /\ pc = "legend"
    /\ IF ai = 1
       THEN IF mpl = "legacy"
            THEN LET cur == Len(fig)
                     n == Min({Len(fig[cur].lines), Len(lines)})
                 IN /\ fig' = [fig EXCEPT
                                 ![cur].legend =
                                     [j \in 1..n |->
                                        [handle |-> fig[cur].lines[j],
                                         text |-> LineStr(lines[j])]],
                                 ![cur].hasLegend = TRUE]
                    /\ pc' = "xlabel"
                    /\ err' = err
            ELSE /\ Raise("legend", "TypeError")
                 /\ fig' = fig
       ELSE /\ pc' = "xlabel"
            /\ UNCHANGED <<fig, err>>
    /\ UNCHANGED <<inputs, ai, ci, lines, runs, prevFig, prevErr>>

\* the x label set on every row (the test on ai dropped)
IfXLabel_EveryRow ==
    /\ pc = "xlabel"
    /\ fig' = [fig EXCEPT ![Len(fig)].xlabel = XLabel]
    /\ pc' = "set_axes"
    /\ UNCHANGED <<inputs, ai, ci, lines, err, runs, prevFig, prevErr>>

\* if ai == 2: ax.set_xlabel('Time (sec)')
IfXLabel ==
    /\ pc = "xlabel"
    /\ fig' = IF ai = 2
              THEN [fig EXCEPT ![Len(fig)].xlabel = XLabel]
              ELSE fig
    /\ pc' = "set_axes"
    /\ UNCHANGED <<inputs, ai, ci, lines, err, runs, prevFig, prevErr>>

\* ax.set_axes('tight'), then the next turn of the for loop
SetAxes ==
    /\ pc = "set_axes"
    /\ IF mpl = "legacy"
       THEN /\ ai' = ai + 1
            /\ pc' = IF ai + 1 < Len(axes) THEN "subplot" ELSE "done"
            /\ err' = err
       ELSE /\ Raise("set_axes", "AttributeError")
            /\ ai' = ai
    /\ UNCHANGED <<inputs, ci, fig, lines, runs, prevFig, prevErr>>

\* the script is run again on the same position logs
Rerun ==
    /\ pc \in {"done", "failed"}
    /\ runs < MaxRuns
    /\ runs' = runs + 1
    /\ prevFig' = fig
    /\ prevErr' = err
    /\ pc' = "start"
    /\ ai' = 0
    /\ ci' = 1
    /\ fig' = <<>>
    /\ lines' = <<>>
    /\ err' = NoErr
    /\ UNCHANGED inputs

Next ==
    \/ Figure
    \/ Subplot
    \/ Step
    \/ SetYLabel
    \/ IfLegend
    \/ IfXLabel
    \/ SetAxes
    \/ Rerun

Spec == Init /\ [][Next]_vars

\* ------------------------------------------------------------- claims
\* every line drawn so far, as (creation index of its axes, position in it)
Drawn == {<<a, j>> \in (1..Len(fig)) \X (1..3) : j <= Len(fig[a].lines)}

AllDrawn == Len(fig) = 3 /\ \A a \in 1..3 : Len(fig[a].lines) = 3

\* C1: on axis row i the values handed to the step plot of condition c are
\* exactly 1000 * position_c[k, i], k = 0..len(t_c)-1, in timestamp order
\* (column i of the condition's own matrix).
C1_ScaledColumn ==
    \A d \in Drawn :
        LET l == fig[d[1]].lines[d[2]]
            i == fig[d[1]].index
            c == d[2]
        IN /\ l.x = ts[c]
           /\ DOMAIN l.y = 1..Len(ts[c])
           /\ \A k \in 1..Len(ts[c]) : l.y[k] = 1000 * transs[c][k][i]

C1_Witness ==
    /\ pc = "done"
    /\ AllDrawn
    /\ fig[2].lines[3].y[1] = 1000 * trans_move[1][2]
    /\ trans_move[1][2] # trans_move[1][1]
    /\ trans_move[1][2] # trans_move[1][3]
    /\ trans_move[1][2] # trans_orig[1][2]

\* C2: after the render completes exactly one subplot carries a legend, the
\* middle one, and its entries are the three condition labels in order.
C2_LegendLabels ==
    pc = "done" =>
        /\ {a \in 1..Len(fig) : fig[a].hasLegend} = {2}
        /\ fig[2].index = 2
        /\ [j \in 1..Len(fig[2].legend) |-> fig[2].legend[j].text]
               = <<"stationary", "original", "simulated">>

\* C3: on three well-formed trajectories the plotting sequence runs through
\* all three axis iterations without failing and ends with exactly the three
\* subplots 1, 2, 3 of a 3x1 grid.
C3_Completes ==
    WellFormed =>
        /\ pc # "failed"
        /\ pc = "done" =>
              /\ Len(fig) = 3
              /\ \A a \in 1..3 : fig[a].index = a /\ fig[a].nrows = 3
                                 /\ fig[a].ncols = 1

\* C4: 'Time (sec)' is set on exactly one subplot, the last one; rows 0 and
\* 1 never receive an x-axis label.
C4_XLabelLast ==
    /\ \A a \in 1..Len(fig) : fig[a].index # 3 => fig[a].xlabel = ""
    /\ pc = "done" =>
          /\ {a \in 1..Len(fig) : fig[a].xlabel # ""} = {3}
          /\ fig[3].index = 3
          /\ fig[3].xlabel = "Time (sec)"

C4_Witness ==
    /\ pc = "done"
    /\ Len(fig) = 3
    /\ fig[3].xlabel = "Time (sec)"
    /\ fig[1].ylabel # "" /\ fig[2].ylabel # ""

\* C5: on every subplot the number of points plotted for a condition is the
\* length of that condition's own timestamp sequence, whatever the lengths
\* of the other two.
C5_PointCount ==
    \A d \in Drawn :
        LET l == fig[d[1]].lines[d[2]]
        IN Len(l.x) = Len(ts[d[2]]) /\ Len(l.y) = Len(ts[d[2]])

C5_Witness ==
    /\ pc = "done"
    /\ AllDrawn
    /\ Len(t_stat) # Len(t_orig)
    /\ Len(t_orig) # Len(t_move)
    /\ \A a \in 1..3 : Len(fig[a].lines[1].y) # Len(fig[a].lines[2].y)

\* C6: in every subplot the conditions are drawn in the order stationary,
\* original, simulated, each with its own trajectory and styling.
Own ==
    <<[t |-> t_stat, trans |-> trans_stat, color |-> "y", size |-> 5,
       label |-> "stationary"],
      [t |-> t_orig, trans |-> trans_orig, color |-> "k", size |-> 10,
       label |-> "original"],
      [t |-> t_move, trans |-> trans_move, color |-> "r", size |-> 5,
       label |-> "simulated"]>>

C6_OwnStyling ==
    /\ \A d \in Drawn :
          LET l == fig[d[1]].lines[d[2]]
              o == Own[d[2]]
          IN /\ l.x = o.t
             /\ l.y = [k \in 1..Len(o.trans) |->
                          1000 * o.trans[k][fig[d[1]].index]]
             /\ l.color = o.color
             /\ l.markersize = o.size
             /\ l.label = o.label
             /\ l.marker = "o"
    /\ pc \in {"step", "ylabel", "legend"} =>
          lines = fig[Len(fig)].lines

C6_Witness ==
    /\ pc = "done"
    /\ AllDrawn
    /\ t_stat # t_orig /\ t_orig # t_move /\ t_stat # t_move
    /\ Len(t_stat) = Len(t_orig)
    /\ fig[3].lines[2].color = "k"

\* C7: iteration i creates subplot i+1 of a 3x1 grid, plots column i of
\* every matrix there and labels its vertical axis with the i-th letter of
\* 'XYZ'; at the end each subplot has its own, distinct y-label.
Letter == <<"X", "Y", "Z">>

C7_AxisOrder ==
    /\ Len(fig) <= 3
    /\ \A a \in 1..Len(fig) :
          /\ fig[a].index = a /\ fig[a].nrows = 3 /\ fig[a].ncols = 1
          /\ fig[a].ylabel \in {"", Letter[a]}
          /\ a < Len(fig) => fig[a].ylabel = Letter[a]
          /\ \A j \in 1..Len(fig[a].lines) :
                \A k \in 1..Len(fig[a].lines[j].y) :
                    fig[a].lines[j].y[k] = 1000 * transs[j][k][a]
    /\ pc \in {"subplot", "step", "ylabel"} => Len(fig) = ai + (IF pc = "subplot" THEN 0 ELSE 1)
    /\ pc = "done" =>
          /\ Len(fig) = 3
          /\ <<fig[1].ylabel, fig[2].ylabel, fig[3].ylabel>> = <<"X", "Y", "Z">>

C7_Witness ==
    /\ pc = "done"
    /\ AllDrawn
    /\ fig[3].ylabel = "Z"
    /\ fig[3].lines[1].y[1] # fig[1].lines[1].y[1]

\* C8: every line is a post-step function: for t[k] <= tau < t[k+1] the
\* value shown on row i is 1000 * position[k, i], and it changes only at
\* t[k+1].  In the specification's scenario the X row shows stationary flat
\* at 0 mm, original at 1 mm on odd sample indices and 0 mm on even ones,
\* simulated at 0 mm before t = 1 s and 2 mm from t = 1 s on.
C8_PostStep ==
    /\ \A d \in Drawn :
          LET l == fig[d[1]].lines[d[2]]
              i == fig[d[1]].index
              pos == transs[d[2]]
              n == Len(l.x)
          IN /\ \A k \in 1..(n - 1) :
                   \A tau \in l.x[k]..(l.x[k + 1] - 1) :
                       StepValue(l, tau) = 1000 * pos[k][i]
             /\ \A k \in 1..n : StepValue(l, l.x[k]) = 1000 * pos[k][i]
    /\ (IsScenario /\ Len(fig) >= 1 /\ Len(fig[1].lines) = 3) =>
          LET stat == fig[1].lines[1]
              orig == fig[1].lines[2]
              move == fig[1].lines[3]
          IN /\ \A tau \in 0..8 : StepValue(stat, tau) = 0
             /\ \A tau \in 0..8 :
                   StepValue(orig, tau) =
                       IF (tau \div 2) % 2 = 1 THEN 1000 ELSE 0
             /\ \A tau \in 0..3 : StepValue(move, tau) = 0
             /\ \A tau \in 4..8 : StepValue(move, tau) = 2000

C8_Witness ==
    /\ IsScenario
    /\ Len(fig) >= 1
    /\ Len(fig[1].lines) = 3
    /\ StepValue(fig[1].lines[2], 3) = 1000
    /\ StepValue(fig[1].lines[3], 5) = 2000

\* C9: running the plotting routine twice on identical inputs yields two
\* figures with identical plotted data, labels and legend placement, and a
\* run leaves the three trajectories unmodified.
C9_Idempotent ==
    /\ [](runs = 2 /\ pc \in {"done", "failed"} => fig = prevFig /\ err = prevErr)
    /\ [][<<t_stat, t_orig, t_move, trans_stat, trans_orig, trans_move>>'
            = <<t_stat, t_orig, t_move, trans_stat, trans_orig, trans_move>>]_vars

C9_Witness ==
    /\ runs = 2
    /\ pc = "done"
    /\ AllDrawn
    /\ prevFig = fig
    /\ fig[1].lines[3].y[1] # 0

\* C10: with a malformed condition (timestamp length different from the row
\* count, or fewer than 3 columns) the render ends in a failure raised by
\* the plotting/indexing call of the first draw that touches the mismatch,
\* and nothing is drawn, labelled or created after it.
BadDraw(i, c) ==
    \/ ~(i < Len(transs[c][1]))
    \/ Len(ts[c]) # Len(transs[c])

FirstBad ==
    CHOOSE p \in (0..2) \X (1..3) :
        /\ BadDraw(p[1], p[2])
        /\ \A q \in (0..2) \X (1..3) :
              BadDraw(q[1], q[2]) =>
                  (p[1] < q[1] \/ (p[1] = q[1] /\ p[2] <= q[2]))

C10_FailsAtMismatch ==
    ~WellFormed =>
        /\ pc # "done"
        /\ pc = "failed" =>
              /\ err.call = "step"
              /\ <<err.ai, err.ci>> = FirstBad
              /\ Len(fig) = err.ai + 1
              /\ Len(fig[Len(fig)].lines) = err.ci - 1
              /\ fig[Len(fig)].ylabel = ""

====
